---- MODULE Spec2Model ----
(***************************************************************************)
(* EarlyAllocator<PAGE_SIZE> of modules/bump_allocator: a double-ended     *)
(* bump allocator over one range [start, start+size).  Bytes are handed    *)
(* out forward from b_pos, pages backward from p_pos.                      *)
(*                                                                         *)
(* All fields are usize.  The model keeps the word width (scaled down to   *)
(* WordBits bits) and evaluates every +, -, * and << of the source the way *)
(* rustc compiles it: with overflow checks on (debug profile) an overflow  *)
(* panics at that operator, with overflow checks off (release profile) the *)
(* result wraps modulo 2^WordBits.  The profile is fixed at start-up.      *)
(***************************************************************************)
EXTENDS Integers, FiniteSets, Sequences, TLC

\* ------------------------------------------------------------------ bounds
\* width of usize in the model
WordBits == 5
\* cap on the number of live byte allocations the model explores
MaxCount == 2
\* the regions given to init are 1..MaxRegionPages pages long
MaxRegionPages == 2
\* byte requests are 0..MaxAllocSize bytes long, or the largest Layout
MaxAllocSize == 2
\* cap on the number of byte ranges the caller holds at once
MaxLive == 2

\* const generic PAGE_SIZE of EarlyAllocator (a power of two)
PAGE_SIZE == 4

\* 2^n
RECURSIVE Pow2(_)
Pow2(n) == IF n = 0 THEN 1 ELSE 2 * Pow2(n - 1)

\* number of values of a usize; usize::MAX is Word - 1
Word == Pow2(WordBits)
\* isize::MAX, the largest size a Layout may have after rounding up to align
ISIZE_MAX == (Word \div 2) - 1

\* core::alloc::Layout: align is a power of two and size rounded up to align
\* does not exceed isize::MAX
Aligns == { Pow2(k) : k \in 0..(WordBits - 1) }
RoundUp(x, a) == ((x + a - 1) \div a) * a
Layouts == { l \in [size : (0..MaxAllocSize) \cup {ISIZE_MAX}, align : Aligns] :
                RoundUp(l.size, l.align) <= ISIZE_MAX }

\* x & !(align - 1) for align a power of two: clears the low log2(align) bits
AndNotMask(x, align) == x - (x % align)

VARIABLES
    start, size, b_pos, p_pos, count,  \* the five AtomicUsize fields
    overflow_checks,                   \* build profile: TRUE = overflow panics
    panicked,                          \* a call has panicked (the kernel halts)
    call,                              \* the last call: [op, a1, a2]
    ret,                               \* its result: [kind, addr]
    old,                               \* the fields before the last call
    live,                              \* byte ranges handed out and not yet freed
    ctx,                               \* per context: the call in progress
    buckets, len,                      \* AxHashMap: the buckets and the length
    mcall,                             \* the last map call: [op, seed, key, val]
    mret,                              \* its result: [some, val]
    mold,                              \* entries, len and contents before it
    contents                           \* what the caller put in: <<key, value>>

fields == <<start, size, b_pos, p_pos, count>>
vars == <<start, size, b_pos, p_pos, count, overflow_checks, panicked,
          call, ret, old, live, ctx, buckets, len, mcall, mret, mold, contents>>
mapvars == <<buckets, len, mcall, mret, mold, contents>>

\* the execution contexts that may call into the allocator
Contexts == {1, 2}
\* a context outside any call; ld1, ld2 are the values its atomic loads
\* returned, cand the address it computed, passed whether its bound check
\* let it through
Idle == [pc |-> "idle", op |-> "none", a1 |-> 0, a2 |-> 0, ld1 |-> 0, ld2 |-> 0,
         cand |-> 0, passed |-> FALSE, kind |-> "none", addr |-> 0]

Fields == [start |-> start, size |-> size, b_pos |-> b_pos,
           p_pos |-> p_pos, count |-> count]

\* ------------------------------------------------------------- AxHashMap
\* width of the u64 hash in the model
HashBits == 6
HashMod == Pow2(HashBits)
\* AxHashMap::new: with_capacity(16), 16 is a power of two
NumBuckets == 16
\* axhal::misc::random(): the values one call may return
MaxSeed == 1
random == 0..MaxSeed
\* keys, as the bytes their Hash impl writes; values; None is 0
Keys == {<<0>>, <<31>>, <<1, 0>>, <<0, 31>>}
Values == {1, 2}
None == [some |-> FALSE, val |-> 0]
Some(v) == [some |-> TRUE, val |-> v]
\* cap on len
MaxLen == 2

\* SimpleHasher::write, from state st
RECURSIVE write(_, _)
write(st, bytes) ==
    IF bytes = <<>> THEN st
    ELSE write((st * 31 + Head(bytes)) % HashMod, Tail(bytes))

\* AxHashMap::hash with the hasher build_hasher returned (state = seed)
hash(seed, key) == write(seed % HashMod, key)
bucket_index(h) == h % NumBuckets

\* BTreeMap<u64, (K, V)> as the set of its entries, at most one per hash
BTreeInsert(b, h, k, v) == { e \in b : e.hash # h } \cup {[hash |-> h, key |-> k, val |-> v]}
BTreeRemove(b, h) == { e \in b : e.hash # h }

\* AxHashMap::new
MapInit ==
    /\ buckets = [i \in 0..(NumBuckets - 1) |-> {}]
    /\ len = 0
    /\ mcall = [op |-> "new", seed |-> 0, key |-> <<>>, val |-> 0]
    /\ mret = None
    /\ contents = {}
    /\ mold = [entries |-> {}, len |-> 0, contents |-> {}]

\* EarlyAllocator::new
Init ==
    /\ start = 0 /\ size = 0 /\ b_pos = 0 /\ p_pos = 0 /\ count = 0
    /\ overflow_checks \in BOOLEAN
    /\ panicked = FALSE
    /\ call = [op |-> "new", a1 |-> 0, a2 |-> 0]
    /\ ret = [kind |-> "Unit", addr |-> 0]
    /\ old = [start |-> 0, size |-> 0, b_pos |-> 0, p_pos |-> 0, count |-> 0]
    /\ live = <<>>
    /\ ctx = [c \in Contexts |-> Idle]
    /\ MapInit

\* ghost bookkeeping common to all calls
Record(op, a1, a2, kind, addr) ==
    /\ call' = [op |-> op, a1 |-> a1, a2 |-> a2]
    /\ ret' = [kind |-> kind, addr |-> addr]
    /\ old' = Fields
    /\ panicked' = (kind = "Panic")
    /\ UNCHANGED <<overflow_checks, ctx, mapvars>>

\* init that stores the size, not the end address, in p_pos
init_p_pos_size(s, sz) ==
    /\ ~panicked
    /\ start' = s
    /\ size' = sz
    /\ b_pos' = s
    /\ p_pos' = sz
    /\ count' = 0
    /\ Record("init", s, sz, "Unit", 0)

\* BaseAllocator::init; the caller passes a range that lies in the address
\* space (start + size does not exceed usize::MAX)
init(s, sz) ==
    /\ ~panicked
    /\ start' = s
    /\ size' = sz
    /\ b_pos' = s
    /\ p_pos' = s + sz
    /\ count' = 0
    /\ Record("init", s, sz, "Unit", 0)

\* add_memory that accepts a range adjoining the end of the region
add_memory_extend(s, sz) ==
    /\ ~panicked
    /\ IF s = start + size
       THEN /\ size' = size + sz
            /\ UNCHANGED <<start, b_pos, p_pos, count>>
            /\ Record("add_memory", s, sz, "Ok", 0)
       ELSE /\ UNCHANGED fields
            /\ Record("add_memory", s, sz, "NoMemory", 0)

\* BaseAllocator::add_memory
add_memory(s, sz) ==
    /\ ~panicked
    /\ UNCHANGED fields
    /\ Record("add_memory", s, sz, "NoMemory", 0)

\* the arithmetic of ByteAllocator::alloc, operator by operator
AllocCalc(b, p, sz, align, chk) ==
    LET s1 == b + align                          \* b_pos + align
        ovf1 == s1 >= Word
        s1m == ((s1 % Word) + Word - 1) % Word   \* ... - 1
        new_b_pos == AndNotMask(s1m, align)
        s2 == new_b_pos + sz                     \* new_b_pos + size
        ovf2 == s2 >= Word
        end_b_pos == s2 % Word
    IN  IF chk /\ (ovf1 \/ ovf2)
        THEN [kind |-> "Panic", addr |-> 0, end |-> b, mutate |-> FALSE]
        ELSE IF end_b_pos > p
        THEN [kind |-> "NoMemory", addr |-> 0, end |-> b, mutate |-> FALSE]
        ELSE IF new_b_pos = 0                    \* NonNull::new(null).unwrap()
        THEN [kind |-> "Panic", addr |-> 0, end |-> end_b_pos, mutate |-> TRUE]
        ELSE [kind |-> "Ok", addr |-> new_b_pos, end |-> end_b_pos, mutate |-> TRUE]

\* ByteAllocator::alloc
alloc(l) ==
    /\ ~panicked
    /\ count < MaxCount
    /\ LET r == AllocCalc(b_pos, p_pos, l.size, l.align, overflow_checks)
       IN  /\ b_pos' = r.end
           /\ count' = IF r.mutate THEN (count + 1) % Word ELSE count
           /\ Record("alloc", l.size, l.align, r.kind, r.addr)
    /\ UNCHANGED <<start, size, p_pos>>

\* dealloc without the early return on count == 0
dealloc_unguarded ==
    /\ ~panicked
    /\ count' = (count + Word - 1) % Word
    /\ b_pos' = IF count = 0 THEN start ELSE b_pos
    /\ UNCHANGED <<start, size, p_pos>>
    /\ Record("dealloc", 0, 0, "Unit", 0)

\* dealloc that rewinds b_pos on every decrement
dealloc_rewind ==
    /\ ~panicked
    /\ IF count = 0
       THEN UNCHANGED fields
       ELSE /\ count' = (count + Word - 1) % Word
            /\ b_pos' = start
            /\ UNCHANGED <<start, size, p_pos>>
    /\ Record("dealloc", 0, 0, "Unit", 0)

\* ByteAllocator::dealloc; fetch_sub returns the value before the decrement
dealloc ==
    /\ ~panicked
    /\ IF count = 0
       THEN UNCHANGED fields
       ELSE LET prev == count
            IN  /\ count' = (count + Word - 1) % Word
                /\ b_pos' = IF prev = 0 THEN start ELSE b_pos
                /\ UNCHANGED <<start, size, p_pos>>
    /\ Record("dealloc", 0, 0, "Unit", 0)

\* the arithmetic of PageAllocator::alloc_pages, operator by operator
AllocPagesCalc(b, p, num_pages, align_pow2, chk) ==
    LET ovfShl == align_pow2 >= WordBits         \* 1 << align_pow2
        align == Pow2(align_pow2 % WordBits)
        m == num_pages * PAGE_SIZE               \* num_pages * PAGE_SIZE
        ovfMul == m >= Word
        sz == m % Word
        ovfSub == sz > p                         \* current - size
        diff == (p + Word - sz) % Word
        aligned == AndNotMask(diff, align)
    IN  IF chk /\ (ovfShl \/ ovfMul \/ ovfSub)
        THEN [kind |-> "Panic", addr |-> 0, pos |-> p]
        ELSE IF aligned < b \/ aligned > p
        THEN [kind |-> "NoMemory", addr |-> 0, pos |-> p]
        ELSE [kind |-> "Ok", addr |-> aligned, pos |-> aligned]

\* PageAllocator::alloc_pages
alloc_pages(num_pages, align_pow2) ==
    /\ ~panicked
    /\ LET r == AllocPagesCalc(b_pos, p_pos, num_pages, align_pow2, overflow_checks)
       IN  /\ p_pos' = r.pos
           /\ Record("alloc_pages", num_pages, align_pow2, r.kind, r.addr)
    /\ UNCHANGED <<start, size, b_pos, count>>

\* dealloc_pages that gives back the most recently allocated pages
dealloc_pages_pop(pos, num_pages) ==
    /\ ~panicked
    /\ p_pos' = IF pos = p_pos /\ p_pos + num_pages * PAGE_SIZE <= start + size
                THEN p_pos + num_pages * PAGE_SIZE
                ELSE p_pos
    /\ UNCHANGED <<start, size, b_pos, count>>
    /\ Record("dealloc_pages", pos, num_pages, "Unit", 0)

\* PageAllocator::dealloc_pages
dealloc_pages(pos, num_pages) ==
    /\ ~panicked
    /\ UNCHANGED fields
    /\ Record("dealloc_pages", pos, num_pages, "Unit", 0)

\* the observers, on a value f of the five fields; - and + wrap
total_bytes(f) == f.size
used_bytes(f) == (f.b_pos + Word - f.start) % Word
available_bytes(f) == (f.p_pos + Word - f.b_pos) % Word
total_pages(f) == f.size \div PAGE_SIZE
used_pages(f) == ((((f.start + f.size) % Word) + Word - f.p_pos) % Word) \div PAGE_SIZE
available_pages(f) == ((f.p_pos + Word - f.b_pos) % Word) \div PAGE_SIZE

\* ----------------------------------------------------------- the call sets
\* regions at address 0, one page up, and in the upper half of the address
\* space; each ends below usize::MAX
Regions == { r \in [start : {0, PAGE_SIZE, Word \div 2},
                    size : { k * PAGE_SIZE : k \in 1..MaxRegionPages }] :
                r.start + r.size <= Word - 1 }
\* page requests: none, a few, and counts whose byte size reaches 2^WordBits
WordPages == Word \div PAGE_SIZE
PageCounts == (0..2) \cup ((WordPages - 2)..WordPages)
\* align_pow2: byte, page, the largest power of two, and the word width
RECURSIVE Log2(_)
Log2(n) == IF n <= 1 THEN 0 ELSE 1 + Log2(n \div 2)
AlignPows == {0, Log2(PAGE_SIZE), WordBits - 1, WordBits}
\* byte requests: every size, aligned to a byte, a page or the largest
\* power of two
ByteLayouts == { l \in Layouts : l.align \in {1, PAGE_SIZE, Word \div 2} }

Next ==
    \/ \E r \in Regions : init(r.start, r.size) /\ UNCHANGED live
    \/ \E s \in {0, start + size} :
           add_memory(s, PAGE_SIZE) /\ UNCHANGED live
    \/ \E l \in ByteLayouts : alloc(l) /\ UNCHANGED live
    \/ dealloc /\ UNCHANGED live
    \/ \E n \in PageCounts, a \in AlignPows : alloc_pages(n, a) /\ UNCHANGED live
    \/ \E pos \in {0, p_pos} :
           dealloc_pages(pos, 1) /\ UNCHANGED live

Spec == Init /\ [][Next]_vars

\* ------------------------------------------- the caller's view of the bytes
\* The allocator keeps no record of what it handed out; `live` is the
\* caller's record: a range is appended when alloc returns it and removed
\* when the caller frees it.
RemoveAt(q, i) == [ j \in 1..(Len(q) - 1) |-> IF j < i THEN q[j] ELSE q[j + 1] ]

allocLive(l) ==
    /\ Len(live) < MaxLive
    /\ alloc(l)
    /\ live' = IF ret'.kind = "Ok"
               THEN Append(live, [addr |-> ret'.addr, size |-> l.size])
               ELSE live

\* the caller frees a range it holds
deallocLive(i) ==
    /\ dealloc
    /\ live' = RemoveAt(live, i)

\* the calls of the caller that keeps the record: one-page regions, byte
\* requests of every size with byte or page alignment, single-page requests
LiveRegions == { r \in Regions : r.size = PAGE_SIZE }
LiveLayouts == { l \in Layouts : l.align \in {1, PAGE_SIZE} }
LivePageCounts == {0, 1}
LiveAlignPows == {0, WordBits - 1}

\* one region, initialized once
NextLive ==
    \/ \E r \in LiveRegions :
           call.op = "new" /\ init(r.start, r.size) /\ UNCHANGED live
    \/ \E l \in LiveLayouts : call.op # "new" /\ allocLive(l)
    \/ \E i \in 1..Len(live) : deallocLive(i)
    \/ call.op # "new" /\ dealloc /\ UNCHANGED live
    \/ \E n \in LivePageCounts, a \in LiveAlignPows :
           call.op # "new" /\ alloc_pages(n, a) /\ UNCHANGED live
    \/ \E n \in {1} : call.op # "new" /\ dealloc_pages(p_pos, n) /\ UNCHANGED live

SpecLive == Init /\ [][NextLive]_vars

\* the bytes of a range, as addresses of the WordBits-bit address space
Bytes(r) == { (r.addr + k) % Word : k \in 0..(r.size - 1) }
NoOverlap == \A i, j \in 1..Len(live) :
                i < j => Bytes(live[i]) \cap Bytes(live[j]) = {}

\* ------------------------------------- the caller's view of bytes and pages
\* As above, with the page ranges recorded too; pages are never given back.
allocZone(l) ==
    /\ Len(live) < MaxLive
    /\ alloc(l)
    /\ live' = IF ret'.kind = "Ok"
               THEN Append(live, [addr |-> ret'.addr, size |-> l.size, kind |-> "bytes"])
               ELSE live

deallocZone(i) ==
    /\ live[i].kind = "bytes"
    /\ dealloc
    /\ live' = RemoveAt(live, i)

allocPagesZone(num_pages, align_pow2) ==
    /\ Len(live) < MaxLive
    /\ alloc_pages(num_pages, align_pow2)
    /\ live' = IF ret'.kind = "Ok"
               THEN Append(live, [addr |-> ret'.addr, size |-> num_pages * PAGE_SIZE,
                                  kind |-> "pages"])
               ELSE live

ZoneLayouts == { l \in Layouts : l.size \in {1, ISIZE_MAX} /\ l.align \in {1, PAGE_SIZE} }
ZonePageCounts == {1, 2, WordPages - 2, WordPages}
ZoneAlignPows == {0, Log2(PAGE_SIZE), WordBits - 1}

\* one region, initialized once
NextZone ==
    \/ \E r \in Regions :
           call.op = "new" /\ init(r.start, r.size) /\ UNCHANGED live
    \/ \E l \in ZoneLayouts : call.op # "new" /\ allocZone(l)
    \/ \E i \in 1..Len(live) : deallocZone(i)
    \/ \E n \in ZonePageCounts, a \in ZoneAlignPows :
           call.op # "new" /\ allocPagesZone(n, a)

SpecZone == Init /\ [][NextZone]_vars

\* a recorded range lies in [start, start + size)
InRegion(r) == start <= r.addr /\ r.addr + r.size <= start + size

\* ------------------------------------------------ calls from two contexts
\* Each context makes one call; every atomic load, store, fetch_add and
\* fetch_sub of the call is a step of its own, and the steps of the two
\* contexts interleave freely.  `old` keeps the fields as they were before
\* the two calls.
ghost == <<overflow_checks, call, ret, old, live, mapvars>>

Finish(c, kind, addr) ==
    /\ ctx' = [ctx EXCEPT ![c].pc = "done", ![c].kind = kind, ![c].addr = addr]
    /\ panicked' = (kind = "Panic")

\* alloc, line 63: b_pos.load
a_load(c, l) ==
    /\ ~panicked /\ ctx[c].pc = "idle"
    /\ ctx' = [ctx EXCEPT ![c] = [Idle EXCEPT !.pc = "a_check", !.op = "alloc",
                                  !.a1 = l.size, !.a2 = l.align, !.ld1 = b_pos]]
    /\ UNCHANGED <<fields, panicked, ghost>>

\* alloc, lines 64-69: the candidate and p_pos.load
a_check(c) ==
    /\ ~panicked /\ ctx[c].pc = "a_check"
    /\ LET r == AllocCalc(ctx[c].ld1, p_pos, ctx[c].a1, ctx[c].a2, overflow_checks)
       IN  IF r.mutate
           THEN /\ ctx' = [ctx EXCEPT ![c].pc = "a_store", ![c].ld2 = p_pos,
                                      ![c].cand = r.end, ![c].passed = TRUE,
                                      ![c].kind = r.kind, ![c].addr = r.addr]
                /\ UNCHANGED panicked
           ELSE /\ ctx' = [ctx EXCEPT ![c].pc = "done", ![c].ld2 = p_pos,
                                      ![c].kind = r.kind]
                /\ panicked' = (r.kind = "Panic")
    /\ UNCHANGED <<fields, ghost>>

\* the store as a compare-exchange on the b_pos that was loaded
a_store_cas(c) ==
    /\ ~panicked /\ ctx[c].pc = "a_store"
    /\ IF b_pos = ctx[c].ld1
       THEN /\ b_pos' = ctx[c].cand
            /\ ctx' = [ctx EXCEPT ![c].pc = "a_count"]
       ELSE /\ b_pos' = b_pos
            /\ ctx' = [ctx EXCEPT ![c].pc = "done", ![c].kind = "NoMemory"]
    /\ UNCHANGED <<start, size, p_pos, count, panicked, ghost>>

\* the store with the bound against p_pos checked again
a_store_recheck(c) ==
    /\ ~panicked /\ ctx[c].pc = "a_store"
    /\ IF ctx[c].cand <= p_pos
       THEN /\ b_pos' = ctx[c].cand
            /\ ctx' = [ctx EXCEPT ![c].pc = "a_count"]
       ELSE /\ b_pos' = b_pos
            /\ ctx' = [ctx EXCEPT ![c].pc = "done", ![c].kind = "NoMemory"]
    /\ UNCHANGED <<start, size, p_pos, count, panicked, ghost>>

\* alloc, line 72: b_pos.store
a_store(c) ==
    /\ ~panicked /\ ctx[c].pc = "a_store"
    /\ b_pos' = ctx[c].cand
    /\ ctx' = [ctx EXCEPT ![c].pc = "a_count"]
    /\ UNCHANGED <<start, size, p_pos, count, panicked, ghost>>

\* alloc, lines 73-75: count.fetch_add and the unwrap of the address
a_count(c) ==
    /\ ~panicked /\ ctx[c].pc = "a_count"
    /\ count' = (count + 1) % Word
    /\ Finish(c, ctx[c].kind, ctx[c].addr)
    /\ UNCHANGED <<start, size, b_pos, p_pos, ghost>>

\* dealloc, lines 79-81: count.load
d_load(c) ==
    /\ ~panicked /\ ctx[c].pc = "idle"
    /\ ctx' = [ctx EXCEPT ![c] = [Idle EXCEPT !.op = "dealloc", !.ld1 = count,
                                  !.kind = "Unit",
                                  !.pc = IF count = 0 THEN "done" ELSE "d_sub"]]
    /\ UNCHANGED <<fields, panicked, ghost>>

\* the decrement as a fetch_update that leaves a zero count alone
d_sub_checked(c) ==
    /\ ~panicked /\ ctx[c].pc = "d_sub"
    /\ count' = IF count = 0 THEN 0 ELSE count - 1
    /\ ctx' = [ctx EXCEPT ![c].ld2 = count, ![c].pc = "done"]
    /\ UNCHANGED <<start, size, b_pos, p_pos, panicked, ghost>>

\* dealloc, lines 83-84: count.fetch_sub, which returns the value before
d_sub(c) ==
    /\ ~panicked /\ ctx[c].pc = "d_sub"
    /\ count' = (count + Word - 1) % Word
    /\ ctx' = [ctx EXCEPT ![c].ld2 = count,
                          ![c].pc = IF count = 0 THEN "d_reset" ELSE "done"]
    /\ UNCHANGED <<start, size, b_pos, p_pos, panicked, ghost>>

\* dealloc, line 85: start.load and b_pos.store
d_reset(c) ==
    /\ ~panicked /\ ctx[c].pc = "d_reset"
    /\ b_pos' = start
    /\ ctx' = [ctx EXCEPT ![c].pc = "done"]
    /\ UNCHANGED <<start, size, p_pos, count, panicked, ghost>>

\* alloc_pages, line 106: p_pos.load
p_load(c, num_pages, align_pow2) ==
    /\ ~panicked /\ ctx[c].pc = "idle"
    /\ ctx' = [ctx EXCEPT ![c] = [Idle EXCEPT !.pc = "p_check_b", !.op = "alloc_pages",
                                  !.a1 = num_pages, !.a2 = align_pow2, !.ld1 = p_pos]]
    /\ UNCHANGED <<fields, panicked, ghost>>

\* alloc_pages, lines 103-107: the candidate computed from the loaded p_pos
PageCandidate(current, num_pages, align_pow2, chk) ==
    LET ovfShl == align_pow2 >= WordBits
        align == Pow2(align_pow2 % WordBits)
        m == num_pages * PAGE_SIZE
        ovfMul == m >= Word
        sz == m % Word
        ovfSub == sz > current
        diff == (current + Word - sz) % Word
    IN  [panic |-> chk /\ (ovfShl \/ ovfMul \/ ovfSub),
         aligned |-> AndNotMask(diff, align)]

\* alloc_pages, line 109, left operand: aligned < b_pos.load
p_check_b(c) ==
    /\ ~panicked /\ ctx[c].pc = "p_check_b"
    /\ LET r == PageCandidate(ctx[c].ld1, ctx[c].a1, ctx[c].a2, overflow_checks)
       IN  IF r.panic
           THEN Finish(c, "Panic", 0)
           ELSE /\ ctx' = [ctx EXCEPT ![c].ld2 = b_pos, ![c].cand = r.aligned,
                                      ![c].kind = IF r.aligned < b_pos
                                                  THEN "NoMemory" ELSE "none",
                                      ![c].pc = IF r.aligned < b_pos
                                                THEN "done" ELSE "p_check_p"]
                /\ UNCHANGED panicked
    /\ UNCHANGED <<fields, ghost>>

\* alloc_pages, line 109, right operand: aligned > p_pos.load
p_check_p(c) ==
    /\ ~panicked /\ ctx[c].pc = "p_check_p"
    /\ IF ctx[c].cand > p_pos
       THEN ctx' = [ctx EXCEPT ![c].pc = "done", ![c].kind = "NoMemory"]
       ELSE ctx' = [ctx EXCEPT ![c].pc = "p_store", ![c].passed = TRUE]
    /\ UNCHANGED <<fields, panicked, ghost>>

\* alloc_pages, lines 113-114: p_pos.store
p_store(c) ==
    /\ ~panicked /\ ctx[c].pc = "p_store"
    /\ p_pos' = ctx[c].cand
    /\ Finish(c, "Ok", ctx[c].cand)
    /\ UNCHANGED <<start, size, b_pos, count, ghost>>

\* the two calls start on a region one page above address 0, two pages long,
\* fresh or with one byte allocated
ConcPrior == {0, 1}
InitConc ==
    /\ start = PAGE_SIZE /\ size = 2 * PAGE_SIZE
    /\ p_pos = 3 * PAGE_SIZE
    /\ count \in ConcPrior
    /\ b_pos = start + count
    /\ overflow_checks \in BOOLEAN
    /\ panicked = FALSE
    /\ call = [op |-> "init", a1 |-> start, a2 |-> size]
    /\ ret = [kind |-> "Unit", addr |-> 0]
    /\ old = Fields
    /\ live = <<>>
    /\ ctx = [c \in Contexts |-> Idle]
    /\ MapInit

ConcLayouts == { l \in Layouts : l.size \in {1, MaxAllocSize} /\ l.align \in {1, PAGE_SIZE} }
ConcPageCounts == {1, 2}
ConcAlignPows == {0, Log2(PAGE_SIZE)}

NextConc ==
    \E c \in Contexts :
        \/ \E l \in ConcLayouts : a_load(c, l)
        \/ a_check(c)
        \/ a_store(c)
        \/ a_count(c)
        \/ d_load(c)
        \/ d_sub(c)
        \/ d_reset(c)
        \/ \E n \in ConcPageCounts, a \in ConcAlignPows : p_load(c, n, a)
        \/ p_check_b(c)
        \/ p_check_p(c)
        \/ p_store(c)

SpecConc == InitConc /\ [][NextConc]_vars

\* the range a finished alloc returned
Range(c) == [addr |-> ctx[c].addr, size |-> ctx[c].a1]
Done(c, op) == ctx[c].pc = "done" /\ ctx[c].op = op

\* ------------------------------------------------------ calls on the map
allocvars == <<fields, overflow_checks, panicked, call, ret, old, live, ctx>>

\* the entries AxHashMap::iter yields: every entry of every bucket
iter(bs) == UNION { bs[i] : i \in 0..(NumBuckets - 1) }

\* the caller's record without key k, and the value it holds for k
Without(k) == { e \in contents : e[1] # k }
Held(c, k) == { e[2] : e \in { x \in c : x[1] = k } }

MapRecord(op, seed, k, v, r) ==
    /\ mcall' = [op |-> op, seed |-> seed, key |-> k, val |-> v]
    /\ mret' = r
    /\ mold' = [entries |-> iter(buckets), len |-> len, contents |-> contents]
    /\ UNCHANGED allocvars

\* the entry of bucket b that the loops of insert, get and remove stop at
Found(b, h, k) == { e \in b : e.hash = h /\ e.key = k }

\* AxHashMap::insert; seed is what random() returned to the hasher
insert(seed, key, value) ==
    /\ len < MaxLen
    /\ LET h == hash(seed, key)
           idx == bucket_index(h)
           bucket == buckets[idx]
           found == Found(bucket, h, key)
       IN  IF found # {}
           THEN LET e == CHOOSE x \in found : TRUE
                IN  /\ buckets' = [buckets EXCEPT ![idx] =
                                      BTreeInsert(BTreeRemove(bucket, h), h, key, value)]
                    /\ len' = len
                    /\ MapRecord("insert", seed, key, value, Some(e.val))
           ELSE /\ buckets' = [buckets EXCEPT ![idx] = BTreeInsert(bucket, h, key, value)]
                /\ len' = len + 1
                /\ MapRecord("insert", seed, key, value, None)
    /\ contents' = Without(key) \cup {<<key, value>>}

\* AxHashMap::get
get(seed, key) ==
    /\ LET h == hash(seed, key)
           found == Found(buckets[bucket_index(h)], h, key)
       IN  MapRecord("get", seed, key, 0,
                     IF found # {} THEN Some((CHOOSE x \in found : TRUE).val) ELSE None)
    /\ UNCHANGED <<buckets, len, contents>>

\* AxHashMap::remove
remove(seed, key) ==
    /\ LET h == hash(seed, key)
           idx == bucket_index(h)
           found == Found(buckets[idx], h, key)
       IN  IF found # {}
           THEN /\ buckets' = [buckets EXCEPT ![idx] = BTreeRemove(buckets[idx], h)]
                /\ len' = len - 1
                /\ MapRecord("remove", seed, key, 0, Some((CHOOSE x \in found : TRUE).val))
           ELSE /\ UNCHANGED <<buckets, len>>
                /\ MapRecord("remove", seed, key, 0, None)
    /\ contents' = Without(key)

NextMap ==
    \/ \E seed \in random, k \in Keys, v \in Values : insert(seed, k, v)
    \/ \E seed \in random, k \in Keys : get(seed, k)
    \/ \E seed \in random, k \in Keys : remove(seed, k)

SpecMap == Init /\ [][NextMap]_vars

\* ------------------------------------------------------------------ claims
FieldsUnchanged == Fields = old

\* C1: under serialized calls every state in which no call has panicked
\* satisfies start <= b_pos <= p_pos <= start + size.
C1_LayoutInvariant ==
    ~panicked => (start <= b_pos /\ b_pos <= p_pos /\ p_pos <= start + size)

\* C2: whenever count is 0, b_pos is back at start (the dealloc that takes
\* count from 1 to 0 rewinds the byte zone).
C2_BulkReclaim ==
    ~panicked => (count = 0 => b_pos = start)

\* C3: alloc(size, align) succeeds exactly when roundup(b_pos, align) + size
\* <= p_pos, and then returns roundup(b_pos, align), sets b_pos to that
\* address plus size, adds one to count and leaves start, size, p_pos alone.
C3_AllocContract ==
    (call.op = "alloc" /\ old.size > 0) =>
        LET r == RoundUp(old.b_pos, call.a2)
        IN  /\ (ret.kind = "Ok") <=> (r + call.a1 <= old.p_pos)
            /\ ret.kind = "Ok" =>
                   /\ ret.addr = r
                   /\ b_pos = r + call.a1
                   /\ count = old.count + 1
                   /\ start = old.start /\ size = old.size /\ p_pos = old.p_pos

\* C4: a byte allocation whose aligned end exceeds p_pos returns NoMemory
\* and leaves all five fields as they were.
C4_AllocNoMemoryFrame ==
    ( /\ call.op = "alloc" /\ old.size > 0
      /\ RoundUp(old.b_pos, call.a2) + call.a1 > old.p_pos ) =>
        (ret.kind = "NoMemory" /\ FieldsUnchanged)

\* C5: the byte ranges the caller holds never overlap.
C5_NoOverlap ==
    ~panicked => NoOverlap

\* C6: alloc_pages(k, a) either returns addr with addr % 2^a = 0,
\* addr >= b_pos, addr + k*PAGE_SIZE <= old p_pos and p_pos = addr, or
\* returns NoMemory with every field unchanged; b_pos and count never change.
C6_AllocPagesContract ==
    (call.op = "alloc_pages" /\ old.size > 0) =>
        /\ b_pos = old.b_pos /\ count = old.count
        /\ \/ /\ ret.kind = "Ok"
              /\ ret.addr % Pow2(call.a2) = 0
              /\ ret.addr >= b_pos
              /\ ret.addr + call.a1 * PAGE_SIZE <= old.p_pos
              /\ p_pos = ret.addr
              /\ start = old.start /\ size = old.size
           \/ (ret.kind = "NoMemory" /\ FieldsUnchanged)

\* C7: a page request whose byte size is larger than p_pos (p_pos - size
\* underflows) that returns at all returns NoMemory and changes nothing.
C7_UnderflowRejected ==
    ( /\ call.op = "alloc_pages" /\ old.size > 0
      /\ call.a1 * PAGE_SIZE < Word
      /\ call.a1 * PAGE_SIZE > old.p_pos
      /\ ret.kind # "Panic" ) =>
        (ret.kind = "NoMemory" /\ FieldsUnchanged)

\* C8: no alloc or alloc_pages call on an initialized region panics.
C8_NoPanic ==
    (call.op \in {"alloc", "alloc_pages"} /\ old.size > 0) => ret.kind # "Panic"

\* C9: dealloc with count = 0 changes no field.
C9_DeallocAtZero ==
    (call.op = "dealloc" /\ old.count = 0) => FieldsUnchanged
C9_Witness ==
    call.op = "dealloc" /\ old.count = 0 /\ count = 0 /\ size > 0 /\ b_pos > start

\* C10: a dealloc that leaves count above zero lowers count by exactly one
\* and leaves b_pos, p_pos, start and size as they were.
C10_DeallocPartialFrame ==
    (call.op = "dealloc" /\ count > 0) =>
        /\ count = old.count - 1
        /\ b_pos = old.b_pos /\ p_pos = old.p_pos
        /\ start = old.start /\ size = old.size
C10_Witness ==
    call.op = "dealloc" /\ count > 0 /\ old.count = count + 1 /\ b_pos > start

\* C11: init(start, size) in any state leaves b_pos = start,
\* p_pos = start + size and count = 0, so used_bytes() = 0,
\* available_bytes() = size, total_bytes() = size and used_pages() = 0.
C11_InitResets ==
    call.op = "init" =>
        /\ start = call.a1 /\ size = call.a2
        /\ b_pos = start /\ p_pos = start + size /\ count = 0
        /\ used_bytes(Fields) = 0
        /\ available_bytes(Fields) = size
        /\ total_bytes(Fields) = size
        /\ used_pages(Fields) = 0
C11_Witness ==
    /\ call.op = "init"
    /\ old.count > 0 /\ old.b_pos > old.start
    /\ old.p_pos < old.start + old.size
    /\ start # old.start /\ start > 0

\* C12: add_memory returns NoMemory for every argument pair, in every
\* state, and leaves all five fields unchanged.
C12_AddMemoryRejected ==
    call.op = "add_memory" => (ret.kind = "NoMemory" /\ FieldsUnchanged)
C12_Witness ==
    /\ call.op = "add_memory"
    /\ size > 0 /\ call.a1 = start + size /\ call.a2 = PAGE_SIZE
    /\ count > 0

\* C13: dealloc_pages leaves p_pos, b_pos, count, used_pages() and
\* available_pages() unchanged for every argument pair.
C13_DeallocPagesFrame ==
    call.op = "dealloc_pages" =>
        /\ p_pos = old.p_pos /\ b_pos = old.b_pos /\ count = old.count
        /\ used_pages(Fields) = used_pages(old)
        /\ available_pages(Fields) = available_pages(old)
C13_Witness ==
    /\ call.op = "dealloc_pages"
    /\ call.a1 = p_pos /\ call.a2 = 1
    /\ p_pos < start + size /\ used_pages(Fields) > 0

\* C17: every page range returned by alloc_pages lies inside
\* [start, start + size) and shares no byte with any other page range
\* returned since init nor with a byte range the caller still holds.
C17_PageRangesDisjoint ==
    ~panicked =>
        \A i \in 1..Len(live) :
            live[i].kind = "pages" =>
                /\ InRegion(live[i])
                /\ \A j \in 1..Len(live) :
                       j # i => Bytes(live[i]) \cap Bytes(live[j]) = {}

\* C14: two contexts in alloc that both read the same b_pos and both pass
\* their bound check both succeed, and (for the same alignment and non-empty
\* sizes) the two returned ranges overlap.
C14_SameReadOverlap ==
    \A c, d \in Contexts :
        ( /\ c # d /\ Done(c, "alloc") /\ Done(d, "alloc")
          /\ ctx[c].passed /\ ctx[d].passed
          /\ ctx[c].ld1 = ctx[d].ld1 /\ ctx[c].a2 = ctx[d].a2
          /\ ctx[c].a1 > 0 /\ ctx[d].a1 > 0 ) =>
            /\ ctx[c].kind = "Ok" /\ ctx[d].kind = "Ok"
            /\ Bytes(Range(c)) \cap Bytes(Range(d)) # {}
C14_Witness ==
    /\ Done(1, "alloc") /\ Done(2, "alloc")
    /\ ctx[1].ld1 = ctx[2].ld1
    /\ ctx[1].kind = "Ok" /\ ctx[2].kind = "Ok"
    /\ Bytes(Range(1)) \cap Bytes(Range(2)) # {}
    /\ count = old.count + 2

\* C15: when alloc passes its check against the p_pos from before the page
\* call's store, alloc_pages passes its check against the b_pos from before
\* alloc's store, and the byte end lies above the page address, both calls
\* succeed and leave b_pos > p_pos.
C15_StaleChecksCross ==
    \A c, d \in Contexts :
        ( /\ Done(c, "alloc") /\ Done(d, "alloc_pages")
          /\ ctx[c].passed /\ ctx[d].passed
          /\ ctx[c].ld2 = old.p_pos /\ ctx[d].ld2 = old.b_pos
          /\ ctx[c].cand > ctx[d].cand ) =>
            /\ ctx[c].kind = "Ok" /\ ctx[d].kind = "Ok"
            /\ b_pos = ctx[c].cand /\ p_pos = ctx[d].cand
            /\ b_pos > p_pos
C15_Witness ==
    /\ Done(1, "alloc") /\ Done(2, "alloc_pages")
    /\ ctx[1].kind = "Ok" /\ ctx[2].kind = "Ok"
    /\ b_pos > p_pos
    /\ ctx[1].addr + ctx[1].a1 > ctx[2].addr

\* C16 as stated: two concurrent deallocs that start with count = 1 end
\* with count = 0.
C16_CountNeverWraps ==
    (Done(1, "dealloc") /\ Done(2, "dealloc") /\ old.count = 1) => count = 0

\* C16 amended: two concurrent deallocs that start with count = 1 end with
\* count = 0 or with count wrapped to usize::MAX; count wraps exactly when
\* both contexts load count = 1 before either fetch_sub, and b_pos is then
\* reset to start.
C16_CountWrapsOnRace ==
    (Done(1, "dealloc") /\ Done(2, "dealloc") /\ old.count = 1) =>
        /\ count \in {0, Word - 1}
        /\ (count = Word - 1) <=> (ctx[1].ld1 = 1 /\ ctx[2].ld1 = 1)
        /\ count = Word - 1 => b_pos = start
C16_Witness ==
    /\ Done(1, "dealloc") /\ Done(2, "dealloc") /\ old.count = 1
    /\ ctx[1].ld1 = 1 /\ ctx[2].ld1 = 1
    /\ count = Word - 1

\* C18: a key that was inserted with value v, and neither inserted again nor
\* removed since, is found by get and by remove, which return Some(v).
C18_RoundTrip ==
    mcall.op \in {"get", "remove"} =>
        \A v \in Held(mold.contents, mcall.key) : mret = Some(v)

\* C19: len() is the number of entries iter() yields, and an insert of key k
\* leaves the entry of every other key in place.
C19_LenAndOtherKeys ==
    /\ len = Cardinality(iter(buckets))
    /\ mcall.op = "insert" =>
           \A e \in mold.entries : e.key # mcall.key => e \in iter(buckets)

====
